---- MODULE Spec2Model ----
(***************************************************************************)
(* Model of backend/server.js: an Express application over a mongoose      *)
(* "User" collection.  The file holds two variants of the server: the      *)
(* first (lines 1-262) puts checkDatabaseConnection in front of /register  *)
(* and /login and has PUT /profile; the second (lines 264-415) has no      *)
(* connection gate, no readiness flag, no PUT /profile and an unguarded    *)
(* GET /profile.  A behaviour is a run of one of the two.                  *)
(*                                                                         *)
(* Node runs one callback at a time, so every action below is the code     *)
(* that runs between one await and the next.                               *)
(***************************************************************************)
EXTENDS Integers, Sequences, FiniteSets, TLC

\* ------------------------------------------------------------------ bounds
MaxReq == 2         \* requests that arrive in one behaviour
MaxChain == 2       \* connect attempts in flight plus retry timers pending

\* --------------------------------------------------------------- constants
ExpiresIn == 86400  \* { expiresIn: "1d" }, in seconds as jsonwebtoken counts

ReqIds == 1 .. MaxReq
Variants == {1, 2}

\* Instants the clock is sampled at: issue time, one second later, and the
\* seconds around the expiry of a token issued at 0 or at 1.
TimePoints == {0, 1, ExpiresIn - 1, ExpiresIn, ExpiresIn + 1, ExpiresIn + 2}

\* ------------------------------------------------------------ request data
Absent == "undefined"                  \* a field the JSON body does not carry
Names == {"A"}                         \* names given at registration
NewNames == {"B"}                      \* names given in a profile update
Emails == {"e1", "e2"}
Passwords == {"p1", "p2"}
NewPasswords == {"p1"}                 \* passwords given at registration
Salts == {"s1"}
\* Bodies of PUT /profile: each field absent, empty or set.
PutBodies ==
    {[name |-> n, email |-> e] :
        n \in {Absent, ""} \cup NewNames, e \in {Absent, ""} \cup Emails}

\* JavaScript truthiness of a string-or-undefined value: `if (name)`.
Truthy(s) == s # Absent /\ s # ""

\* ---------------------------------------------------------------- bcryptjs
NoHash == [plain |-> "", salt |-> ""]
\* bcrypt.hash(password, 10) with the salt it drew.
Hash(plain, salt) == [plain |-> plain, salt |-> salt]
CompareAlways(plain, hashed) == TRUE
CompareFreshSalt(plain, hashed) == Hash(plain, "s0") = hashed
\* bcrypt.compare(password, user.password): re-hash under the stored salt.
Compare(plain, hashed) == Hash(plain, hashed.salt) = hashed

\* ------------------------------------------------------------ jsonwebtoken
\* A word of the Authorization header, as the verifier sees it: a JWT with its
\* payload and the key that signed it, a string that is no JWT, or "".
Secret == "JWT_SECRET"
Jwt(id, iat, exp, key) == [form |-> "jwt", id |-> id, iat |-> iat, exp |-> exp, key |-> key]
EmptyWord == [form |-> "empty", id |-> 0, iat |-> 0, exp |-> 0, key |-> ""]
Garbage == [form |-> "garbage", id |-> 0, iat |-> 0, exp |-> 0, key |-> ""]
Forged == Jwt(1, 0, 2 * ExpiresIn, "other")

SignNoExpiry(id, t) == Jwt(id, t, 2 * ExpiresIn + 2, Secret)
\* jwt.sign({ id }, process.env.JWT_SECRET, { expiresIn: "1d" }) at time t.
Sign(id, t) == Jwt(id, t, t + ExpiresIn, Secret)

\* jwt.verify(token, process.env.JWT_SECRET) at time t does not throw:
\* well-formed, signed with the secret, and not expired (t >= exp is expired).
VerifyOk(tok, t) == tok.form = "jwt" /\ tok.key = Secret /\ t < tok.exp

\* ------------------------------------------------------ Authorization header
NoHeader == << >>                      \* req.headers.authorization undefined
\* A present header is the sequence of its space-separated parts, scheme first.
\* req.headers.authorization?.split(" ")[1]; EmptyWord stands for both
\* undefined and "", the two values `!token` rejects.
SecondWord(h) == IF Len(h) >= 2 THEN h[2] ELSE EmptyWord
SchemeWord(s) == [form |-> s, id |-> 0, iat |-> 0, exp |-> 0, key |-> ""]
Schemes == {"Bearer", "Basic"}
HeaderScheme(h) == IF Len(h) >= 1 THEN h[1].form ELSE Absent

\* ------------------------------------------------------------------- state
VARIABLES
    variant,      \* which of the two servers of the file runs (1: lines 1-262, 2: lines 264-415)
    isConnected,  \* `let isConnected` (line 29), the readiness flag
    readyState,   \* mongoose.connection.readyState: 0 disconnected, 1 connected, 2 connecting
    attempts,     \* calls of connectWithRetry awaiting mongoose.connect
    timers,       \* setTimeout(connectWithRetry, 5000) timers pending
    users,        \* the documents of the User collection
    now,          \* the clock, in seconds
    pc,           \* per request: the await its handler is suspended at
    req,          \* per request: route, variant, JSON body, Authorization header
    loc,          \* per request: the handler's local variables
    resp,         \* per request: the response sent (status 0: none yet)
    hist          \* per request: the flag when it arrived, whether the earlier requests had
                  \* been answered and its email was taken then, the store operations it
                  \* started, the time its token was issued at

vars == <<variant, isConnected, readyState, attempts, timers, users, now, pc, req, loc, resp, hist>>
connVars == <<isConnected, readyState, attempts, timers>>
reqVars == <<variant, pc, req, loc, resp, hist>>

\* A document of userSchema.  _id is drawn when the document is constructed;
\* the request that constructs it lends its number.  lastLogin is never set.
NoDate == 0 - 1
NoDoc == [id |-> 0, name |-> "", email |-> "", password |-> NoHash,
          role |-> "", createdAt |-> NoDate, lastLogin |-> NoDate]
\* new User({ name, email, password: hashedPassword }) with the defaults of
\* the schema: role and createdAt in the first variant (lines 126-127), neither
\* in the second (lines 335-339).
NewUser(id, name, email, hashed, t) ==
    [id |-> id, name |-> name, email |-> email, password |-> hashed,
     role |-> IF variant = 1 THEN "member" ELSE Absent,
     createdAt |-> IF variant = 1 THEN t ELSE NoDate,
     lastLogin |-> NoDate]

NoBody == [none |-> TRUE]
NoReq == [route |-> "none",
          body |-> [name |-> Absent, email |-> Absent, password |-> Absent],
          auth |-> NoHeader]
NoLoc == [userId |-> 0, user |-> NoDoc, modified |-> {}]
NoResp == [status |-> 0, body |-> NoBody]
NoHist == [flag |-> FALSE, seq |-> FALSE, taken |-> FALSE, ops |-> 0, writes |-> 0, issuedAt |-> NoDate]

\* ------------------------------------------------------------ the collection
FindOneWrongField(email) == {u \in users : u.name = email}
\* User.findOne({ email }): a document with that email, or none.
FindOne(email) == {u \in users : u.email = email}
\* User.findById(id).
FindById(id) == {u \in users : u.id = id}
\* The unique index on email (userSchema, `unique: true`) rejects a write that
\* would give the document `id` an email another document holds (E11000).
DuplicateKeyNever(id, email) == FALSE
DuplicateKey(id, email) == \E u \in users : u.email = email /\ u.id # id
\* A store operation reaches the server only over an open connection.
StoreUp == readyState = 1

\* The collection outlives the process: at startup it is empty, or holds a
\* user registered by an earlier run, who still holds the token of that run.
PriorId == 101
PriorUser == NewUser(PriorId, "A", "e1", Hash("p1", "s1"), 0)
PriorToken == Sign(PriorId, 0)

\* Tokens the clients hold: every token a response carried, and the prior one.
IssuedTokens ==
    {resp[r].body.token : r \in {q \in ReqIds : "token" \in DOMAIN resp[q].body}}
    \cup {PriorToken}
\* Authorization headers a client may send.
Headers ==
    {NoHeader, <<SchemeWord("Bearer")>>, <<SchemeWord("Bearer"), EmptyWord, Garbage>>,
     <<SchemeWord("Bearer"), Garbage>>, <<SchemeWord("Bearer"), Forged>>,
     <<SchemeWord("Basic"), Garbage>>}
    \cup {<<SchemeWord(s), t>> : s \in Schemes, t \in IssuedTokens}

Init ==
    /\ variant \in Variants
    /\ isConnected = FALSE
    /\ readyState = 2
    /\ attempts = 1
    /\ timers = 0
    /\ users \in {{}, {PriorUser}}
    /\ now = 0
    /\ pc = [r \in ReqIds |-> "idle"]
    /\ req = [r \in ReqIds |-> NoReq]
    /\ loc = [r \in ReqIds |-> NoLoc]
    /\ resp = [r \in ReqIds |-> NoResp]
    /\ hist = [r \in ReqIds |-> NoHist]

\* ------------------------------------------------- connection lifecycle
\* connectWithRetry, lines 31-77, is split at its await: the call of
\* mongoose.connect (inside the actions that call it: the retry timer and the
\* 'disconnected' listener), the continuation after a resolved connect and
\* the catch after a rejected one.  attempts counts the calls that are
\* suspended at the await.

\* The second variant (lines 292-326) is the same without the flag, which
\* stays FALSE there.

\* The connection opens: mongoose emits 'connected' (lines 83-87) and resolves
\* the pending connect, whose continuation (lines 49-57) is a microtask of the
\* same turn of the event loop, so both run before any other callback.
ConnectResolve ==
    /\ attempts > 0
    /\ attempts' = attempts - 1
    /\ readyState' = 1
    /\ isConnected' = (variant = 1)
    /\ UNCHANGED <<timers, users, now, reqVars>>

ConnectRejectNoRetry ==
    /\ attempts > 0
    /\ readyState # 1
    /\ attempts' = attempts - 1
    /\ readyState' = 0
    /\ isConnected' = FALSE
    /\ UNCHANGED <<timers, users, now, reqVars>>
\* Lines 59-76: mongoose.connect rejected; the catch clears the flag and
\* schedules the retry.
ConnectReject ==
    /\ attempts > 0
    /\ readyState # 1
    /\ attempts' = attempts - 1
    /\ timers' = timers + 1
    /\ readyState' = 0
    /\ isConnected' = FALSE
    /\ UNCHANGED <<users, now, reqVars>>

\* Line 75: the 5 second timer fires and calls connectWithRetry (lines 31-57).
\* On a closed connection mongoose.connect starts connecting and stays
\* pending.  On an open one it resolves at once, and the continuation (lines
\* 49-57) runs in the same turn.  While another connect is in progress it
\* either waits for that one or resolves at once, as the mongoose release
\* has it; then line 50 sets the flag and the test of line 53 takes its else
\* branch ("Connection not fully established yet").
RetryTimer ==
    /\ timers > 0
    /\ timers' = timers - 1
    /\ \E atOnce \in (IF readyState = 0 THEN {FALSE}
                       ELSE IF readyState = 1 THEN {TRUE} ELSE BOOLEAN) :
          IF atOnce
          THEN /\ isConnected' = (variant = 1)
               /\ UNCHANGED <<attempts, readyState>>
          ELSE /\ attempts' = attempts + 1
               /\ readyState' = 2
               /\ UNCHANGED isConnected
    /\ UNCHANGED <<users, now, reqVars>>

\* 'error' (lines 89-93).
OnError ==
    /\ isConnected
    /\ isConnected' = FALSE
    /\ UNCHANGED <<readyState, attempts, timers, users, now, reqVars>>

OnDisconnectedNoReconnect ==
    /\ readyState = 1
    /\ isConnected' = FALSE
    /\ readyState' = 0
    /\ UNCHANGED <<attempts, timers, users, now, reqVars>>
\* 'disconnected' (lines 95-101): clears the flag and calls connectWithRetry,
\* whose mongoose.connect puts the connection in the connecting state.
OnDisconnected ==
    /\ readyState = 1
    /\ attempts + timers < MaxChain
    /\ isConnected' = FALSE
    /\ readyState' = 2
    /\ attempts' = attempts + 1
    /\ UNCHANGED <<timers, users, now, reqVars>>

\* 'connected' (lines 83-87) emitted without a call of connectWithRetry having
\* resolved: the driver of a connection that was open before re-establishes
\* it on its own.  A connect still pending stays pending.
OnConnected ==
    /\ readyState # 1
    /\ readyState' = 1
    /\ isConnected' = (variant = 1)
    /\ UNCHANGED <<attempts, timers, users, now, reqVars>>

\* The clock moves on to a later sampled instant.
Tick ==
    /\ \E t \in TimePoints : t > now /\ now' = t
    /\ UNCHANGED <<connVars, users, reqVars>>

\* ------------------------------------------------------------------ requests
\* Requests arrive in the order of their numbers.  The JSON body is recorded
\* when the handler destructures it (lines 134, 161, 217), so a request the
\* gate turns away has none.
CanArrive(r) == pc[r] = "idle" /\ \A q \in ReqIds : q < r => pc[q] # "idle"

\* res.status(status).json(body): the request is finished.
Respond(r, status, body) ==
    /\ pc' = [pc EXCEPT ![r] = "done"]
    /\ resp' = [resp EXCEPT ![r] = [status |-> status, body |-> body]]

Arrive(r, route, body, auth) ==
    req' = [req EXCEPT ![r] = [route |-> route, body |-> body, auth |-> auth]]

\* What is recorded of request r when it arrives: the flag, whether every
\* earlier request had been answered, whether its email was held by a document.
Arrived(r, h, taken) ==
    [h EXCEPT !.flag = isConnected, !.taken = taken,
              !.seq = \A q \in ReqIds : q < r => pc[q] \in {"done", "unhandled"}]

\* The handler starts a store operation (a read, or a write when w = 1).
Started(h, w) == [h EXCEPT !.ops = @ + 1, !.writes = @ + w]

GateChecksReadyStateOnly == readyState # 1
\* checkDatabaseConnection, lines 104-113: TRUE when it answers 503.
GateRejects == ~isConnected \/ readyState # 1

GateBody == [message |-> "Database connection not ready. Please try again in a few seconds.",
             error |-> "Database connection not established",
             state |-> readyState]

UserSummaryWhole(u) == u
\* `user: { id: newUser._id, name: newUser.name, email: newUser.email }` of the
\* register and login responses (lines 151, 177).
UserSummary(u) == [id |-> u.id, name |-> u.name, email |-> u.email]

\* POST /register arrives (lines 133-137, 343-347): the gate (first variant), then the handler up to
\* `await User.findOne({ email })`.
RegisterStart(r, name, email, password) ==
    /\ CanArrive(r)
    /\ IF variant = 1 /\ GateRejects
       THEN /\ Arrive(r, "register", NoReq.body, NoHeader)
            /\ Respond(r, 503, GateBody)
            /\ hist' = [hist EXCEPT ![r] = Arrived(r, @, FALSE)]
       ELSE /\ Arrive(r, "register", [name |-> name, email |-> email, password |-> password], NoHeader)
            /\ pc' = [pc EXCEPT ![r] = "reg_find"]
            /\ hist' = [hist EXCEPT ![r] = Started(Arrived(r, @, FindOne(email) # {}), 0)]
            /\ UNCHANGED resp
    /\ UNCHANGED <<connVars, users, now, loc, variant>>

\* Lines 137-144: findOne answered; 400 when the email is taken, else hash the
\* password, construct the document and start save().  A failed findOne is
\* caught at lines 153-156.
RegisterFindOne(r) ==
    /\ pc[r] = "reg_find"
    /\ IF ~StoreUp
       THEN /\ Respond(r, 500, [message |-> "Error registering user", error |-> "connection"])
            /\ UNCHANGED <<loc, hist>>
       ELSE IF FindOne(req[r].body.email) # {}
       THEN /\ Respond(r, 400, [message |-> "User already exists"])
            /\ UNCHANGED <<loc, hist>>
       ELSE /\ \E salt \in Salts :
                 loc' = [loc EXCEPT ![r].user =
                            NewUser(r, req[r].body.name, req[r].body.email,
                                    Hash(req[r].body.password, salt), now)]
            /\ pc' = [pc EXCEPT ![r] = "reg_save"]
            /\ hist' = [hist EXCEPT ![r] = Started(@, 1)]
            /\ UNCHANGED resp
    /\ UNCHANGED <<connVars, users, now, req, variant>>

RegisterSaveIgnoresFailure(r) ==
    /\ pc[r] = "reg_save"
    /\ users' = IF StoreUp /\ ~DuplicateKey(loc[r].user.id, loc[r].user.email)
                THEN users \cup {loc[r].user} ELSE users
    /\ Respond(r, 201, [message |-> "User registered successfully",
                        token |-> Sign(loc[r].user.id, now),
                        user |-> UserSummary(loc[r].user)])
    /\ hist' = [hist EXCEPT ![r].issuedAt = now]
    /\ UNCHANGED <<connVars, now, req, loc, variant>>
\* Lines 144-152: save() answered.  The insert fails on a lost connection or
\* on the unique index; both land in the catch of lines 153-156.
RegisterSave(r) ==
    /\ pc[r] = "reg_save"
    /\ IF ~StoreUp
       THEN /\ Respond(r, 500, [message |-> "Error registering user", error |-> "connection"])
            /\ UNCHANGED <<users, hist>>
       ELSE IF DuplicateKey(loc[r].user.id, loc[r].user.email)
       THEN /\ Respond(r, 500, [message |-> "Error registering user", error |-> "E11000"])
            /\ UNCHANGED users
            /\ UNCHANGED hist
       ELSE /\ users' = users \cup {loc[r].user}
            /\ Respond(r, 201, [message |-> "User registered successfully",
                                token |-> Sign(loc[r].user.id, now),
                                user |-> UserSummary(loc[r].user)])
            /\ hist' = [hist EXCEPT ![r].issuedAt = now]
    /\ UNCHANGED <<connVars, now, req, loc, variant>>

\* POST /login arrives (lines 160-164, 369-373): the gate (first variant),
\* then the handler up to `await User.findOne({ email })`.
LoginStart(r, email, password) ==
    /\ CanArrive(r)
    /\ IF variant = 1 /\ GateRejects
       THEN /\ Arrive(r, "login", NoReq.body, NoHeader)
            /\ Respond(r, 503, GateBody)
            /\ hist' = [hist EXCEPT ![r] = Arrived(r, @, FALSE)]
       ELSE /\ Arrive(r, "login", [name |-> Absent, email |-> email, password |-> password], NoHeader)
            /\ pc' = [pc EXCEPT ![r] = "login_find"]
            /\ hist' = [hist EXCEPT ![r] = Started(Arrived(r, @, FindOne(email) # {}), 0)]
            /\ UNCHANGED resp
    /\ UNCHANGED <<connVars, users, now, loc, variant>>

\* Lines 164-168: findOne answered; 404 when there is no such user, else
\* start bcrypt.compare.  A failed findOne is caught at lines 179-182.
LoginFindOne(r) ==
    /\ pc[r] = "login_find"
    /\ IF ~StoreUp
       THEN /\ Respond(r, 500, [message |-> "Login failed", error |-> "connection"])
            /\ UNCHANGED loc
       ELSE IF FindOne(req[r].body.email) = {}
       THEN /\ Respond(r, 404, [message |-> "User not found"])
            /\ UNCHANGED loc
       ELSE /\ \E u \in FindOne(req[r].body.email) : loc' = [loc EXCEPT ![r].user = u]
            /\ pc' = [pc EXCEPT ![r] = "login_compare"]
            /\ UNCHANGED resp
    /\ UNCHANGED <<connVars, users, now, req, hist, variant>>

\* Lines 168-178: bcrypt.compare answered; 401 on a mismatch, else the token.
LoginCompare(r) ==
    /\ pc[r] = "login_compare"
    /\ IF ~Compare(req[r].body.password, loc[r].user.password)
       THEN /\ Respond(r, 401, [message |-> "Invalid credentials"])
            /\ UNCHANGED hist
       ELSE /\ Respond(r, 200, [message |-> "Login successful",
                                token |-> Sign(loc[r].user.id, now),
                                user |-> UserSummary(loc[r].user)])
            /\ hist' = [hist EXCEPT ![r].issuedAt = now]
    /\ UNCHANGED <<connVars, users, now, req, loc, variant>>

\* verifyToken, lines 247-258 and 400-411: the status it answers with, or 0
\* when it calls next().
VerifyToken(auth) ==
    IF SecondWord(auth).form = "empty" THEN 401
    ELSE IF ~VerifyOk(SecondWord(auth), now) THEN 400
    ELSE 0

TokenGateBody(status) ==
    IF status = 401 THEN [message |-> "Access Denied"] ELSE [message |-> "Invalid Token"]

\* GET /profile arrives (lines 186-188, 394-395): verifyToken, then the handler
\* up to `await User.findById(req.userId)`.
GetProfileStart(r, auth) ==
    /\ CanArrive(r)
    /\ Arrive(r, "getProfile", NoReq.body, auth)
    /\ IF VerifyToken(auth) # 0
       THEN /\ Respond(r, VerifyToken(auth), TokenGateBody(VerifyToken(auth)))
            /\ hist' = [hist EXCEPT ![r] = Arrived(r, @, FALSE)]
            /\ UNCHANGED loc
       ELSE /\ loc' = [loc EXCEPT ![r].userId = SecondWord(auth).id]
            /\ pc' = [pc EXCEPT ![r] = "get_find"]
            /\ hist' = [hist EXCEPT ![r] = Started(Arrived(r, @, FALSE), 0)]
            /\ UNCHANGED resp
    /\ UNCHANGED <<connVars, users, now, variant>>

\* .select("-password") and the profile object of lines 194-202.
ProfileOf(u) ==
    [id |-> u.id, name |-> u.name, email |-> u.email,
     role |-> IF Truthy(u.role) THEN u.role ELSE "member",
     createdAt |-> u.createdAt,
     lastLogin |-> IF u.lastLogin # NoDate THEN u.lastLogin ELSE now]

\* Lines 188-211: findById answered, inside try/catch.
GetProfileFindById(r) ==
    /\ pc[r] = "get_find"
    /\ variant = 1
    /\ IF ~StoreUp
       THEN Respond(r, 500, [message |-> "Error retrieving profile"])
       ELSE IF FindById(loc[r].userId) = {}
       THEN Respond(r, 404, [message |-> "User not found"])
       ELSE \E u \in FindById(loc[r].userId) :
                Respond(r, 200, [message |-> "Profile retrieved successfully",
                                 profile |-> ProfileOf(u)])
    /\ UNCHANGED <<connVars, users, now, req, loc, hist, variant>>

\* Lines 394-397: findById answered, with no try/catch: a rejection leaves the
\* request without a response, and res.json(user) sends the document (or null).
GetProfileFindById2(r) ==
    /\ pc[r] = "get_find"
    /\ variant = 2
    /\ IF ~StoreUp
       THEN /\ pc' = [pc EXCEPT ![r] = "unhandled"]
            /\ UNCHANGED resp
       ELSE IF FindById(loc[r].userId) = {}
       THEN Respond(r, 200, [null |-> TRUE])
       ELSE \E u \in FindById(loc[r].userId) :
                Respond(r, 200, [id |-> u.id, name |-> u.name, email |-> u.email])
    /\ UNCHANGED <<connVars, users, now, req, loc, hist, variant>>

\* PUT /profile arrives (lines 215-218, first variant only): verifyToken, then
\* the handler up to `await User.findById(req.userId)`.
PutProfileStart(r, auth, name, email) ==
    /\ CanArrive(r)
    /\ variant = 1
    /\ IF VerifyToken(auth) # 0
       THEN /\ Arrive(r, "putProfile", NoReq.body, auth)
            /\ Respond(r, VerifyToken(auth), TokenGateBody(VerifyToken(auth)))
            /\ hist' = [hist EXCEPT ![r] = Arrived(r, @, FALSE)]
            /\ UNCHANGED loc
       ELSE /\ loc' = [loc EXCEPT ![r].userId = SecondWord(auth).id]
            /\ Arrive(r, "putProfile", [name |-> name, email |-> email, password |-> Absent], auth)
            /\ pc' = [pc EXCEPT ![r] = "put_find"]
            /\ hist' = [hist EXCEPT ![r] = Started(Arrived(r, @, FALSE), 0)]
            /\ UNCHANGED resp
    /\ UNCHANGED <<connVars, users, now, variant>>

\* Lines 225-226: `if (name) user.name = name; if (email) user.email = email;`
Assign(u, body) ==
    [u EXCEPT !.name = IF Truthy(body.name) THEN body.name ELSE @,
              !.email = IF Truthy(body.email) THEN body.email ELSE @]

\* The paths mongoose marks modified: those assigned a different value.
Modified(old, new) ==
    {f \in {"name", "email"} : (f = "name" /\ new.name # old.name) \/ (f = "email" /\ new.email # old.email)}

\* Lines 218-228: findById answered; 404 when the user is gone, else assign
\* the fields and start save().
PutProfileFindById(r) ==
    /\ pc[r] = "put_find"
    /\ IF ~StoreUp
       THEN /\ Respond(r, 500, [message |-> "Error updating profile"])
            /\ UNCHANGED <<loc, hist>>
       ELSE IF FindById(loc[r].userId) = {}
       THEN /\ Respond(r, 404, [message |-> "User not found"])
            /\ UNCHANGED <<loc, hist>>
       ELSE /\ \E u \in FindById(loc[r].userId) :
                 loc' = [loc EXCEPT ![r].user = Assign(u, req[r].body),
                                    ![r].modified = Modified(u, Assign(u, req[r].body))]
            /\ pc' = [pc EXCEPT ![r] = "put_save"]
            /\ hist' = [hist EXCEPT ![r] = Started(@, 1)]
            /\ UNCHANGED resp
    /\ UNCHANGED <<connVars, users, now, req, variant>>

SaveWholeDocument(doc, modified) == {IF u.id = doc.id THEN doc ELSE u : u \in users}
\* user.save() of a loaded document: updateOne({ _id }, { $set: <modified paths> }).
SaveUpdate(doc, modified) ==
    {IF u.id = doc.id
     THEN [u EXCEPT !.name = IF "name" \in modified THEN doc.name ELSE @,
                    !.email = IF "email" \in modified THEN doc.email ELSE @]
     ELSE u : u \in users}

\* Lines 228-239: save() answered.  The update fails on a lost connection or
\* on the unique index; both land in the catch of lines 240-243.
PutProfileSave(r) ==
    /\ pc[r] = "put_save"
    /\ IF ~StoreUp
       THEN /\ Respond(r, 500, [message |-> "Error updating profile"])
            /\ UNCHANGED users
       ELSE IF "email" \in loc[r].modified /\ DuplicateKey(loc[r].user.id, loc[r].user.email)
       THEN /\ Respond(r, 500, [message |-> "Error updating profile"])
            /\ UNCHANGED users
       ELSE /\ users' = SaveUpdate(loc[r].user, loc[r].modified)
            /\ Respond(r, 200, [message |-> "Profile updated successfully",
                                profile |-> [id |-> loc[r].user.id, name |-> loc[r].user.name,
                                             email |-> loc[r].user.email,
                                             role |-> IF Truthy(loc[r].user.role)
                                                      THEN loc[r].user.role ELSE "member",
                                             updatedAt |-> now]])
    /\ UNCHANGED <<connVars, now, req, loc, hist, variant>>

\* ------------------------------------------------------------ specifications
Register == \E r \in ReqIds, n \in Names, e \in Emails, p \in NewPasswords : RegisterStart(r, n, e, p)
RegisterFind == \E r \in ReqIds : RegisterFindOne(r)
RegisterInsert == \E r \in ReqIds : RegisterSave(r)
Login == \E r \in ReqIds, e \in Emails, p \in Passwords : LoginStart(r, e, p)
LoginFind == \E r \in ReqIds : LoginFindOne(r)
LoginMatch == \E r \in ReqIds : LoginCompare(r)
GetProfile == \E r \in ReqIds, h \in Headers : GetProfileStart(r, h)
GetProfileFind == \E r \in ReqIds : GetProfileFindById(r)
GetProfileFind2 == \E r \in ReqIds : GetProfileFindById2(r)
PutProfile == \E r \in ReqIds, h \in Headers, b \in PutBodies : PutProfileStart(r, h, b.name, b.email)
PutProfileFind == \E r \in ReqIds : PutProfileFindById(r)
PutProfileUpdate == \E r \in ReqIds : PutProfileSave(r)

Requests ==
    \/ Register \/ RegisterFind \/ RegisterInsert
    \/ Login \/ LoginFind \/ LoginMatch
    \/ GetProfile \/ GetProfileFind \/ GetProfileFind2
    \/ PutProfile \/ PutProfileFind \/ PutProfileUpdate

Connection ==
    \/ ConnectResolve \/ ConnectReject
    \/ RetryTimer \/ OnError \/ OnDisconnected

Next == Requests \/ Connection

Spec == Init /\ [][Next]_vars

\* The requests alone, served by a process whose connection is open and
\* stays open.
InitReady ==
    /\ variant \in Variants
    /\ isConnected = (variant = 1)
    /\ readyState = 1
    /\ attempts = 0
    /\ timers = 0
    /\ users \in {{}, {PriorUser}}
    /\ now = 0
    /\ pc = [r \in ReqIds |-> "idle"]
    /\ req = [r \in ReqIds |-> NoReq]
    /\ loc = [r \in ReqIds |-> NoLoc]
    /\ resp = [r \in ReqIds |-> NoResp]
    /\ hist = [r \in ReqIds |-> NoHist]

\* These requests with the clock running.
NextClock == Requests \/ Tick

SpecClock == InitReady /\ [][NextClock]_vars

\* The connection lifecycle alone, from an open connection on: the callbacks
\* of connectWithRetry and the three listeners, with the connection coming
\* back on its own as well, and logins as the requests that meet the gate
\* meanwhile.  A timer that was set fires, and a pending mongoose.connect
\* settles (serverSelectionTimeoutMS bounds it).
NextConn == Connection \/ OnConnected \/ Login \/ LoginFind \/ LoginMatch

SpecConn ==
    /\ InitReady
    /\ [][NextConn]_vars
    /\ WF_vars(RetryTimer)
    /\ WF_vars(ConnectResolve \/ ConnectReject)

\* ------------------------------------------------------------------- claims
Done(r) == pc[r] = "done"
HasToken(r) == "token" \in DOMAIN resp[r].body
\* Request r was served with nothing else in flight.
Alone(r) == hist[r].seq /\ (r + 1 \in ReqIds => (pc[r + 1] = "idle" \/ hist[r + 1].seq))
\* Request r was turned away, or failed, because the store was not ready.
StoreFailed(r) ==
    \/ resp[r].status = 503
    \/ resp[r].status = 500 /\ "error" \in DOMAIN resp[r].body /\ resp[r].body.error = "connection"

\* C1: a POST /register or POST /login that meets the connection gate while
\* the readiness flag is false is answered 503, starts no store operation
\* (no findOne, no save) and gets no token.
C1_GateAnswers503 ==
    \A r \in ReqIds :
        (variant = 1 /\ req[r].route \in {"register", "login"} /\ ~hist[r].flag)
        => /\ Done(r)
           /\ resp[r].status = 503
           /\ hist[r].ops = 0
           /\ hist[r].writes = 0
           /\ ~HasToken(r)
           /\ \A u \in users : u.id # r

\* A login turned away while the flag is false although the connection is open.
C1_Witness ==
    \E r \in ReqIds :
        /\ variant = 1
        /\ req[r].route = "login"
        /\ ~hist[r].flag
        /\ resp[r].status = 503
        /\ resp[r].body.state = 1

\* C2: with the store ready, a registration of an email no document holds,
\* served with nothing else in flight, is answered 201; a login that follows
\* it with the same email and password is answered 200; both tokens verify,
\* and to the same id, that of the document the registration inserted.
C2_RegisterThenLogin ==
    \A r \in ReqIds :
        (req[r].route = "register" /\ Done(r) /\ Alone(r) /\ ~hist[r].taken /\ ~StoreFailed(r))
        => /\ resp[r].status = 201
           /\ HasToken(r)
           /\ VerifyToken(<<SchemeWord("Bearer"), resp[r].body.token>>) = 0
           /\ resp[r].body.token.id = loc[r].user.id
           /\ resp[r].body.user.id = loc[r].user.id
           /\ loc[r].user.email = req[r].body.email
           /\ \E u \in users : u.id = loc[r].user.id
           /\ \A l \in ReqIds :
                (/\ l = r + 1
                 /\ req[l].route = "login"
                 /\ Done(l)
                 /\ Alone(l)
                 /\ ~StoreFailed(l)
                 /\ req[l].body.email = req[r].body.email
                 /\ req[l].body.password = req[r].body.password)
                => /\ resp[l].status = 200
                   /\ HasToken(l)
                   /\ VerifyToken(<<SchemeWord("Bearer"), resp[l].body.token>>) = 0
                   /\ resp[l].body.token.id = resp[r].body.token.id

\* A registration answered 201 and the login after it answered 200.
C2_Witness ==
    \E r \in ReqIds, l \in ReqIds :
        /\ l = r + 1
        /\ req[r].route = "register" /\ resp[r].status = 201 /\ Alone(r) /\ ~hist[r].taken
        /\ req[l].route = "login" /\ resp[l].status = 200 /\ Alone(l)
        /\ req[l].body.email = req[r].body.email
        /\ req[l].body.password = req[r].body.password
        /\ resp[l].body.token.id = r

\* C3: when a registration has been answered 201 and its document is in the
\* collection as inserted, the lookup of a later registration of the same
\* email ends that request with 400 "User already exists": nothing is
\* inserted, no token is issued and the collection (so the first user's id,
\* name, email, password hash and role) is left as it was.
C3_SecondRegistrationConflicts ==
    [][\A r \in ReqIds, q \in ReqIds :
          (/\ pc[q] = "reg_find" /\ pc'[q] # "reg_find"
           /\ StoreUp
           /\ r < q
           /\ req[r].route = "register" /\ resp[r].status = 201
           /\ req[q].body.email = req[r].body.email
           /\ loc[r].user \in users)
          => /\ pc'[q] = "done"
             /\ resp'[q].status = 400
             /\ resp'[q].body = [message |-> "User already exists"]
             /\ hist'[q].writes = 0
             /\ users' = users
             /\ loc[r].user \in users'
             /\ \A u \in users' : u.id # q]_vars

\* The second of two registrations of one email, served one after the other,
\* was answered 400 and the first user's document is still the one inserted.
C3_Witness ==
    \E r \in ReqIds, q \in ReqIds :
        /\ q = r + 1
        /\ hist[q].seq
        /\ req[r].route = "register" /\ resp[r].status = 201
        /\ req[q].route = "register" /\ resp[q].status = 400
        /\ req[q].body.email = req[r].body.email
        /\ loc[r].user \in users
        /\ ~HasToken(q)

\* C4: when two registrations of one email both pass the existence check and
\* both attempt the insert, with the store up, exactly one is answered 201 and
\* the other one 400 (not 500).
C4_RaceLoserGetsConflict ==
    \A r \in ReqIds, q \in ReqIds :
        (/\ r # q
         /\ req[r].route = "register" /\ req[q].route = "register"
         /\ req[r].body.email = req[q].body.email
         /\ hist[r].writes = 1 /\ hist[q].writes = 1
         /\ Done(r) /\ Done(q)
         /\ ~StoreFailed(r) /\ ~StoreFailed(q)
         /\ resp[r].status = 201)
        => resp[q].status = 400

\* C5: no two documents of the collection have the same email, whatever
\* registrations and profile updates ran and however they interleaved.
C5_EmailUnique ==
    \A u \in users, v \in users : u.email = v.email => u = v

\* Two users exist and a profile update that set the email of one to the
\* email of the other was refused by the index.
C5_Witness ==
    \E r \in ReqIds :
        /\ req[r].route = "putProfile"
        /\ Done(r)
        /\ resp[r].status = 500
        /\ "email" \in loc[r].modified
        /\ \E u \in users : u.email = loc[r].user.email /\ u.id # loc[r].user.id
        /\ \E u \in users : u.id = loc[r].user.id /\ u.email # loc[r].user.email

\* C6: on the profile routes a request whose Authorization header is missing
\* or has a scheme other than Bearer is answered 401; one with a Bearer token
\* that is malformed, wrongly signed or expired is answered 400; in both cases
\* the handler does not run and starts no store operation; the handler runs
\* only for a valid Bearer token, with the token's id as req.userId.
C6_TokenGate ==
    \A r \in ReqIds :
        req[r].route \in {"getProfile", "putProfile"}
        => /\ HeaderScheme(req[r].auth) # "Bearer"
              => (Done(r) /\ resp[r].status = 401 /\ hist[r].ops = 0)
           /\ (/\ HeaderScheme(req[r].auth) = "Bearer"
               /\ Len(req[r].auth) = 2
               /\ req[r].auth[2] \in {Garbage, Forged})
              => (Done(r) /\ resp[r].status = 400 /\ hist[r].ops = 0)
           /\ hist[r].ops > 0
              => (/\ HeaderScheme(req[r].auth) = "Bearer"
                  /\ loc[r].userId = req[r].auth[2].id)

C8_LoginFailures ==
    [][\A r \in ReqIds :
          /\ (/\ pc[r] = "login_find" /\ pc'[r] # "login_find"
              /\ StoreUp
              /\ ~\E u \in users : u.email = req[r].body.email)
             => /\ pc'[r] = "done"
                /\ resp'[r].status = 404
                /\ "token" \notin DOMAIN resp'[r].body
                /\ users' = users
          /\ (/\ pc[r] = "login_find" /\ pc'[r] # "login_find"
              /\ StoreUp
              /\ \E u \in users : u.email = req[r].body.email)
             => /\ pc'[r] = "login_compare"
                /\ loc'[r].user \in users
                /\ loc'[r].user.email = req[r].body.email
                /\ users' = users
          /\ (/\ pc[r] = "login_compare" /\ pc'[r] # "login_compare"
              /\ loc[r].user.password.plain # req[r].body.password)
             => /\ pc'[r] = "done"
                /\ resp'[r].status = 401
                /\ "token" \notin DOMAIN resp'[r].body
                /\ users' = users]_vars

\* One login answered 404 for an unknown email and one answered 401 for a
\* known email with the wrong password.
C8_Witness ==
    \E r \in ReqIds, q \in ReqIds :
        /\ req[r].route = "login" /\ resp[r].status = 404
        /\ ~\E u \in users : u.email = req[r].body.email
        /\ req[q].route = "login" /\ resp[q].status = 401
        /\ \E u \in users : u.email = req[q].body.email /\ u.password.plain # req[q].body.password

\* What a step of the PUT /profile request r may do to the collection: before
\* save() is answered nothing; the answered save() leaves every other
\* document, and the caller's id, password hash, role and createdAt, as they
\* were, leaves name (email) as it was unless the body sets it, and on
\* success stores the name (email) of the body when it sets it.  setsName and
\* setsEmail say when the body counts as setting the field.
PutFrame(r, setsName, setsEmail) ==
    /\ (pc[r] = "put_find" /\ pc'[r] # "put_find") => users' = users
    /\ (pc[r] = "put_save" /\ pc'[r] # "put_save")
       => /\ pc'[r] = "done"
          /\ \A u \in users : u.id # loc[r].userId => u \in users'
          /\ \A v \in users' : v.id # loc[r].userId => v \in users
          /\ \A u \in users : u.id = loc[r].userId =>
                \E v \in users' :
                    /\ v.id = u.id
                    /\ \A w \in users' : w.id = u.id => w = v
                    /\ v.password = u.password
                    /\ v.role = u.role
                    /\ v.createdAt = u.createdAt
                    /\ v.lastLogin = u.lastLogin
                    /\ ~setsName => v.name = u.name
                    /\ ~setsEmail => v.email = u.email
                    /\ (resp'[r].status = 200 /\ setsName) => v.name = req[r].body.name
                    /\ (resp'[r].status = 200 /\ setsEmail) => v.email = req[r].body.email

\* C9 as claimed: PUT /profile changes exactly the fields present in the body
\* (a body with only name changes the name and leaves the email, and the
\* other way round); id, password hash, role, createdAt and every other
\* user's document are left unchanged.
C9_FieldsPresent ==
    [][\A r \in ReqIds :
          PutFrame(r, req[r].body.name # Absent, req[r].body.email # Absent)]_vars

\* C9 as amended: PUT /profile changes exactly the fields the body carries
\* with a non-empty value that differs from the value the handler read; a
\* field that is absent, the empty string or equal to the value read is left
\* as stored (so a body with only a name leaves the email, and the other way
\* round); id, password hash, role, createdAt and every other user's document
\* are left unchanged.
C9_FieldsChanged ==
    [][\A r \in ReqIds :
          PutFrame(r, Truthy(req[r].body.name) /\ "name" \in loc[r].modified,
                      Truthy(req[r].body.email) /\ "email" \in loc[r].modified)]_vars

\* Two users exist; an update carrying only a name was answered 200 and the
\* caller's document has the new name and its old email.
C9_Witness ==
    \E r \in ReqIds :
        /\ req[r].route = "putProfile"
        /\ resp[r].status = 200
        /\ req[r].body.name \in NewNames
        /\ req[r].body.email = Absent
        /\ Cardinality(users) = 2
        /\ \E u \in users :
              u.id = loc[r].userId /\ u.name = req[r].body.name /\ u.email = loc[r].user.email

\* C10: in the first variant a handler starts a store operation only for a
\* request that found the readiness flag true when it arrived.
C10_ReadinessCheckedFirst ==
    \A r \in ReqIds : (variant = 1 /\ hist[r].ops > 0) => hist[r].flag

\* C11: every request that has ended has exactly one response, a JSON body
\* with a message field, whichever path it took (success, gate rejection,
\* not found, a failed store call), and no failure of a store call leaves a
\* handler as an unhandled rejection.
C11_EveryPathAnswersWithMessage ==
    \A r \in ReqIds :
        /\ pc[r] # "unhandled"
        /\ Done(r) => (resp[r].status # 0 /\ "message" \in DOMAIN resp[r].body)

\* C12: no response carries a password, in plaintext or hashed: a register or
\* login response has only message, token and user {id, name, email}, a
\* profile response has no password field, and no text of a response is a
\* password.
C12_NoPasswordInResponses ==
    \A r \in ReqIds :
        Done(r)
        => /\ "password" \notin DOMAIN resp[r].body
           /\ "user" \in DOMAIN resp[r].body
              => /\ DOMAIN resp[r].body = {"message", "token", "user"}
                 /\ DOMAIN resp[r].body.user = {"id", "name", "email"}
                 /\ resp[r].body.user.name \notin Passwords
                 /\ resp[r].body.user.email \notin Passwords
           /\ "profile" \in DOMAIN resp[r].body
              => /\ "password" \notin DOMAIN resp[r].body.profile
                 /\ resp[r].body.profile.name \notin Passwords
                 /\ resp[r].body.profile.email \notin Passwords
           /\ "message" \in DOMAIN resp[r].body => resp[r].body.message \notin Passwords
           /\ "error" \in DOMAIN resp[r].body => resp[r].body.error \notin Passwords

\* A registration answered 201 with the new user's summary and a GET /profile
\* of that user answered 200 with the profile, while the stored document holds
\* the hash.
C12_Witness ==
    \E r \in ReqIds, q \in ReqIds :
        /\ req[r].route = "register" /\ resp[r].status = 201
        /\ resp[r].body.user.id = r
        /\ req[q].route = "getProfile" /\ resp[q].status = 200
        /\ "profile" \in DOMAIN resp[q].body
        /\ resp[q].body.profile.id = r
        /\ \E u \in users : u.id = r /\ u.password # NoHash

\* C13: a connect attempt that fails leaves the readiness flag false and
\* schedules a retry, whatever the number of failures before it, and the retry
\* timer calls connect again when it fires (a new attempt, or a connect that
\* resolves at once and sets the flag); so, in the first server, if connect
\* attempts stop failing from some point on, every pending attempt or retry is
\* followed by a state where the connection is open and the flag is true.
C13_RetryUntilConnected ==
    /\ [][/\ (attempts' = attempts - 1 /\ readyState' # 1)
             => (isConnected' = FALSE /\ timers' = timers + 1)
          /\ (timers' = timers - 1)
             => \/ attempts' = attempts + 1 /\ readyState' = 2
                \/ readyState # 0 /\ attempts' = attempts /\ isConnected' = (variant = 1)]_vars
    /\ (variant = 1)
       => (<>[][~ConnectReject]_vars
           => []((attempts > 0 \/ timers > 0) => <>(readyState = 1 /\ isConnected)))

\* A connect attempt has failed: the flag is false, the connection is down and
\* the only thing pending is the retry timer.
C13_Witness ==
    /\ variant = 1
    /\ readyState = 0
    /\ ~isConnected
    /\ attempts = 0
    /\ timers = 1

\* C14: in the first server, whenever the readiness flag is false a connect
\* attempt is in flight or a retry timer is pending: after a 'disconnected' or
\* an 'error' event has cleared the flag the gateway is on its way back to
\* Connecting, never at rest.
C14_NoRestingDisconnected ==
    (variant = 1 /\ ~isConnected) => (attempts > 0 \/ timers > 0)

\* C15: the step in which an open connection is lost ('disconnected') leaves
\* the readiness flag false and starts a connect attempt (connectWithRetry);
\* and the flag goes from false to true only in a step in which a connect
\* resolves (a pending one, or one the retry timer just called) or the
\* connection comes back ('connected'), so it stays false until then.
C15_DisconnectedClearsAndReconnects ==
    [][/\ (readyState = 1 /\ readyState' # 1)
          => /\ isConnected' = FALSE
             /\ attempts' = attempts + 1
             /\ readyState' = 2
       /\ (~isConnected /\ isConnected')
          => \/ attempts' = attempts - 1 /\ readyState' = 1
             \/ timers' = timers - 1 /\ attempts' = attempts
             \/ readyState # 1 /\ readyState' = 1 /\ attempts' = attempts]_vars

\* A login passed the gate with the flag true and is waiting for its findOne;
\* the connection has been lost since: the flag is false and the attempt of
\* the reconnect is in flight.
C15_Witness ==
    /\ variant = 1
    /\ ~isConnected
    /\ readyState = 2
    /\ attempts = 1
    /\ timers = 0
    /\ \E r \in ReqIds : req[r].route = "login" /\ hist[r].flag /\ pc[r] = "login_find"

\* C16: in every reachable state the readiness flag is true only if the
\* connection is open (readyState 1), however the completions of connect
\* attempts interleave with the 'connected', 'error' and 'disconnected'
\* events; no continuation of a connect sets the flag after a disconnect
\* cleared it while the connection is still not open.
C16_FlagOnlyIfConnected ==
    isConnected => readyState = 1

\* C17: the connect attempts in flight and the retry timers pending are never
\* more than one in all, whatever the sequence of connect failures and
\* 'disconnected' events.
C17_OneReconnectChain ==
    attempts + timers <= 1

\* C18: the step that issues a token answers 201 (register) or 200 (login) and
\* issues it for the id of a document that is in the collection in that very
\* state: for register the document its insert has just added, for login the
\* document its lookup found, whose stored hash was made from the password
\* given; and a request answered with a 4xx or 5xx status carries no token.
C18_TokenOnlyForStoredUser ==
    /\ [][\A r \in ReqIds :
            ("token" \notin DOMAIN resp[r].body /\ "token" \in DOMAIN resp'[r].body)
            => /\ \E u \in users' : u.id = resp'[r].body.token.id
               /\ resp'[r].body.token.id = loc[r].user.id
               /\ req[r].route \in {"register", "login"}
               /\ req[r].route = "register"
                  => /\ resp'[r].status = 201
                     /\ hist[r].writes = 1
                     /\ loc[r].user \notin users
                     /\ loc[r].user \in users'
               /\ req[r].route = "login"
                  => /\ resp'[r].status = 200
                     /\ \E u \in users : u.id = loc[r].user.id
                     /\ loc[r].user.password.plain = req[r].body.password]_vars
    /\ [](\A r \in ReqIds : resp[r].status >= 400 => "token" \notin DOMAIN resp[r].body)

\* A registration and a login have each been given a token, for documents of
\* the collection, and the login's is for the user who was there before.
C18_Witness ==
    \E r \in ReqIds, q \in ReqIds :
        /\ req[r].route = "register" /\ HasToken(r)
        /\ req[q].route = "login" /\ HasToken(q)
        /\ resp[q].body.token.id = PriorId
        /\ \E u \in users : u.id = resp[r].body.token.id
        /\ \E u \in users : u.id = resp[q].body.token.id

\* The record a profile response carries: the profile object, or the body
\* itself where the document is the body.
ReturnedRecord(body) == IF "profile" \in DOMAIN body THEN body.profile ELSE body

\* What a step of the GET /profile request r does: no step of it changes the
\* collection, and the step that answers it, with the store up, answers 200
\* with the record whose id is the token's, with the name and email that
\* document has in the collection in that state (its missing lastLogin shown
\* as the current time and left missing in the collection), and answers 404
\* when no document has that id.
GetProfileAnswer(r) ==
    /\ (req'[r].route = "getProfile" /\ pc'[r] # pc[r]) => users' = users
    /\ (pc[r] = "get_find" /\ pc'[r] # "get_find" /\ StoreUp)
       => /\ loc[r].userId = req[r].auth[2].id
          /\ (\E u \in users : u.id = loc[r].userId)
             => /\ resp'[r].status = 200
                /\ \E u \in users' :
                      /\ u.id = req[r].auth[2].id
                      /\ ReturnedRecord(resp'[r].body).id = u.id
                      /\ ReturnedRecord(resp'[r].body).name = u.name
                      /\ ReturnedRecord(resp'[r].body).email = u.email
                      /\ "profile" \in DOMAIN resp'[r].body
                         => /\ resp'[r].body.profile.lastLogin = now
                            /\ u.lastLogin = NoDate
          /\ (~\E u \in users : u.id = loc[r].userId)
             => resp'[r].status = 404

\* C19: GET /profile with a valid token returns the caller's own record with
\* the latest stored name and email, answers 404 when the token's id has no
\* document, and never changes the collection.
C19_GetProfileOwnRecord ==
    [][\A r \in ReqIds : GetProfileAnswer(r)]_vars

\* The same of the first server alone (lines 186-212), which holds.
C19_FirstServer ==
    [][variant = 1 => \A r \in ReqIds : GetProfileAnswer(r)]_vars

====
